---- MODULE Spec2Model ----
(***************************************************************************)
(* Case converters of the repository: toKebabCase (kebab-case),            *)
(* toCamelCase (camelCase) and toDotCase (dot.case).                       *)
(*                                                                         *)
(* A JavaScript string is a sequence of one-character strings.  A value    *)
(* passed to a converter is a record [type, chars]; the outcome of a call  *)
(* is a record [kind, value, error]: a returned string or a thrown error.  *)
(***************************************************************************)
EXTENDS Integers, Sequences, FiniteSets, TLC

\* ------------------------------------------------------------------------
\* Bounds of the check
\* ------------------------------------------------------------------------
\* longest enumerated input string
MaxLen == 3
\* longest run of delimiters substituted for a single delimiter
MaxRun == 2

\* ------------------------------------------------------------------------
\* Characters
\* ------------------------------------------------------------------------
LowerLetters ==
    <<"a","b","c","d","e","f","g","h","i","j","k","l","m",
      "n","o","p","q","r","s","t","u","v","w","x","y","z">>

UpperLetters ==
    <<"A","B","C","D","E","F","G","H","I","J","K","L","M",
      "N","O","P","Q","R","S","T","U","V","W","X","Y","Z">>

LowerSet == {LowerLetters[i] : i \in 1..26}
UpperSet == {UpperLetters[i] : i \in 1..26}
DigitSet == {"0","1","2","3","4","5","6","7","8","9"}
\* the characters the regular-expression class \s and String.trim() remove
WhitespaceSet == {" ", "\t", "\n"}
SymbolSet == {"$"}
Chars == LowerSet \cup UpperSet \cup DigitSet \cup WhitespaceSet
            \cup SymbolSet \cup {"_", ".", "-"}

\* String.prototype.toLowerCase / toUpperCase on one character
lowerChar == [c \in Chars |->
    IF c \in UpperSet
    THEN LowerLetters[CHOOSE i \in 1..26 : UpperLetters[i] = c] ELSE c]

upperChar == [c \in Chars |->
    IF c \in LowerSet
    THEN UpperLetters[CHOOSE i \in 1..26 : LowerLetters[i] = c] ELSE c]

\* ------------------------------------------------------------------------
\* String primitives
\* ------------------------------------------------------------------------
toLowerCase(s) == [i \in 1..Len(s) |-> lowerChar[s[i]]]
toUpperCase(s) == [i \in 1..Len(s) |-> upperChar[s[i]]]

\* s.slice(k) with a 0-based index k
slice(s, k) == IF k >= Len(s) THEN <<>> ELSE SubSeq(s, k + 1, Len(s))

\* s.charAt(k) with a 0-based index k: "" when out of range
charAt(s, k) == IF k < Len(s) THEN <<s[k + 1]>> ELSE <<>>

\* number of leading / trailing characters of s that belong to set
RECURSIVE leadRun(_, _, _)
leadRun(s, set, i) ==
    IF i <= Len(s) /\ s[i] \in set THEN leadRun(s, set, i + 1) ELSE i - 1

RECURSIVE trailRun(_, _, _)
trailRun(s, set, i) ==
    IF i >= 1 /\ s[i] \in set THEN trailRun(s, set, i - 1) ELSE Len(s) - i

\* String.prototype.trim
trim(s) ==
    LET a == leadRun(s, WhitespaceSet, 1)
    IN  IF a = Len(s) THEN <<>>
        ELSE SubSeq(s, a + 1, Len(s) - trailRun(s, WhitespaceSet, Len(s)))

\* s.replace(/[set]+/g, rep): every maximal run of set becomes rep
RECURSIVE replaceRuns(_, _, _, _)
replaceRuns(s, set, rep, i) ==
    IF i > Len(s) THEN <<>>
    ELSE IF s[i] \in set
         THEN rep \o replaceRuns(s, set, rep, leadRun(s, set, i) + 1)
         ELSE <<s[i]>> \o replaceRuns(s, set, rep, i + 1)

\* s.split(/[set]+/): the pieces between the maximal runs of set, the empty
\* pieces before a leading run and after a trailing run included
RECURSIVE splitRuns(_, _, _, _)
splitRuns(s, set, i, piece) ==
    IF i > Len(s) THEN <<piece>>
    ELSE IF s[i] \in set
         THEN <<piece>> \o splitRuns(s, set, leadRun(s, set, i) + 1, <<>>)
         ELSE splitRuns(s, set, i + 1, Append(piece, s[i]))

\* array.filter(Boolean) on an array of strings: drops the empty strings
filterBoolean(arr) == SelectSeq(arr, LAMBDA t : t # <<>>)

\* array.join(sep)
RECURSIVE join(_, _)
join(arr, sep) ==
    IF arr = <<>> THEN <<>>
    ELSE IF Len(arr) = 1 THEN arr[1]
    ELSE arr[1] \o sep \o join(Tail(arr), sep)

\* ------------------------------------------------------------------------
\* Values and outcomes
\* ------------------------------------------------------------------------
Str(s) == [type |-> "string", chars |-> s]
NonValue(t) == [type |-> t, chars |-> <<>>]
Return(s) == [kind |-> "return", value |-> s, error |-> "none"]
Throw(e) == [kind |-> "throw", value |-> <<>>, error |-> e]
NoOutcome == [kind |-> "none", value |-> <<>>, error |-> "none"]

\* typeof input, for the values that are neither null nor undefined
typeOf(v) == IF v.type = "array" THEN "object" ELSE v.type

\* ------------------------------------------------------------------------
\* toKebabCase
\* ------------------------------------------------------------------------
KebabDelimiters == WhitespaceSet \cup {"_", ".", "-"}

\* .replace(/([a-z])([A-Z])/g, '$1-$2'): matches are found left to right and
\* the search resumes after the end of each match
RECURSIVE insertCamelHyphens(_, _)
insertCamelHyphens(s, i) ==
    IF i > Len(s) THEN <<>>
    ELSE IF i < Len(s) /\ s[i] \in LowerSet /\ s[i + 1] \in UpperSet
         THEN <<s[i], "-", s[i + 1]>> \o insertCamelHyphens(s, i + 2)
         ELSE <<s[i]>> \o insertCamelHyphens(s, i + 1)

\* variant: /[\s_.\-]/g without the +, one hyphen per delimiter
RECURSIVE replaceEach(_, _, _)
replaceEach(s, set, rep) ==
    IF s = <<>> THEN <<>>
    ELSE (IF Head(s) \in set THEN rep ELSE <<Head(s)>>)
            \o replaceEach(Tail(s), set, rep)

collapseKebabDelimiters_noPlus(s) == replaceEach(s, KebabDelimiters, <<"-">>)

\* variant: /[_.\-]+/g, whitespace left in place
collapseKebabDelimiters_noSpace(s) == replaceRuns(s, {"_", ".", "-"}, <<"-">>, 1)

\* .replace(/[\s_.\-]+/g, '-')
collapseKebabDelimiters(s) == replaceRuns(s, KebabDelimiters, <<"-">>, 1)

\* variant: /^-+/, the trailing hyphens kept
stripHyphens_leadingOnly(s) == slice(s, leadRun(s, {"-"}, 1))

\* .replace(/^-+|-+$/g, ''): the leading run of hyphens, then the trailing one
stripHyphens(s) ==
    LET a == leadRun(s, {"-"}, 1)
    IN  IF a = Len(s) THEN <<>>
        ELSE SubSeq(s, a + 1, Len(s) - trailRun(s, {"-"}, Len(s)))

\* variant: the edge hyphens are stripped before the delimiters are collapsed
kebabOfString_stripFirst(s) ==
    toLowerCase(collapseKebabDelimiters(stripHyphens(insertCamelHyphens(s, 1))))

kebabOfString(s) ==
    stripHyphens(toLowerCase(collapseKebabDelimiters(insertCamelHyphens(s, 1))))

\* variant: a non-string is converted with String(str) instead of rejected
toKebabCase_coerce(str) ==
    IF str.type \in {"null", "undefined"} THEN Return(<<>>)
    ELSE IF typeOf(str) # "string" THEN Return(<<"1">>)
    ELSE Return(kebabOfString(str.chars))

toKebabCase(str) ==
    IF str.type \in {"null", "undefined"} THEN Return(<<>>)
    ELSE IF typeOf(str) # "string" THEN Throw("TypeError")
    ELSE Return(kebabOfString(str.chars))

\* ------------------------------------------------------------------------
\* toCamelCase
\* ------------------------------------------------------------------------
CamelDelimiters == WhitespaceSet \cup {"-", "_"}

\* delimiterRegex.test(str) with delimiterRegex = /[\s\-_]/
delimiterTest(s) == \E i \in 1..Len(s) : s[i] \in CamelDelimiters

\* /^[a-z][A-Za-z0-9]*$/.test(str) && /[A-Z]/.test(str)
alreadyCamelTest(s) ==
    /\ Len(s) >= 1
    /\ s[1] \in LowerSet
    /\ \A i \in 2..Len(s) : s[i] \in LowerSet \cup UpperSet \cup DigitSet
    /\ \E i \in 1..Len(s) : s[i] \in UpperSet

\* variant: the all-caps test is missing
camelSingleToken_noAllCaps(s) ==
    IF alreadyCamelTest(s) THEN s
    ELSE toLowerCase(charAt(s, 0)) \o slice(s, 1)

\* the single-token heuristics
camelSingleToken(s) ==
    IF alreadyCamelTest(s) THEN s
    ELSE IF s = toUpperCase(s) THEN toLowerCase(s)
    ELSE toLowerCase(charAt(s, 0)) \o slice(s, 1)

\* variant: the empty pieces are not filtered out
camelTokens_noFilter(s) == splitRuns(s, CamelDelimiters, 1, <<>>)

\* str.split(/[\s\-_]+/).filter(Boolean)
camelTokens(s) == filterBoolean(splitRuns(s, CamelDelimiters, 1, <<>>))

\* token.charAt(0).toUpperCase() + token.slice(1).toLowerCase()
capitalize(token) == toUpperCase(charAt(token, 0)) \o toLowerCase(slice(token, 1))

camelJoinTokens(tokens) ==
    IF Len(tokens) = 0 THEN <<>>
    ELSE LET first == toLowerCase(tokens[1])
             rest == [k \in 1..(Len(tokens) - 1) |-> capitalize(tokens[k + 1])]
         IN  join(<<first>> \o rest, <<>>)

camelOfString(input) ==
    LET str == trim(input)
    IN  IF Len(str) = 0 THEN <<>>
        ELSE IF ~delimiterTest(str) THEN camelSingleToken(str)
        ELSE camelJoinTokens(camelTokens(str))

toCamelCase(input) ==
    IF input.type \in {"null", "undefined"} THEN Return(<<>>)
    ELSE IF typeOf(input) # "string" THEN Throw("TypeError")
    ELSE Return(camelOfString(input.chars))

\* ------------------------------------------------------------------------
\* toDotCase
\* ------------------------------------------------------------------------
DotDelimiters == WhitespaceSet \cup {"-", "_", "."}

\* str.split(/[\s\-_\.]+/).filter(Boolean)
dotTokens(s) == filterBoolean(splitRuns(s, DotDelimiters, 1, <<>>))

\* variant: an acronym is split before every uppercase letter after the first
splitHere_noNext(token, i) ==
    /\ token[i] \in UpperSet
    /\ token[i - 1] \in LowerSet \cup UpperSet

\* the test of splitCamel's loop at the 1-based position i >= 2; token[i + 1]
\* past the end is undefined, and undefined >= 'a' is false
splitHere(token, i) ==
    LET isUpper == token[i] \in UpperSet
        prevIsLower == token[i - 1] \in LowerSet
        prevIsUpper == token[i - 1] \in UpperSet
        nextIsLower == i + 1 <= Len(token) /\ token[i + 1] \in LowerSet
    IN  isUpper /\ (prevIsLower \/ (prevIsUpper /\ nextIsLower))

\* the loop of splitCamel from position i on, with the parts pushed so far and
\* the current buffer
RECURSIVE splitCamelLoop(_, _, _, _)
splitCamelLoop(token, i, parts, buf) ==
    IF i > Len(token) THEN Append(parts, buf)
    ELSE IF splitHere(token, i)
         THEN splitCamelLoop(token, i + 1, Append(parts, buf), <<token[i]>>)
         ELSE splitCamelLoop(token, i + 1, parts, Append(buf, token[i]))

splitCamel(token) ==
    IF Len(token) = 0 THEN <<>>
    ELSE splitCamelLoop(token, 2, <<>>, <<token[1]>>)

\* the loop over the tokens: every part of every token, lowercased
RECURSIVE dotSubParts(_)
dotSubParts(tokens) ==
    IF tokens = <<>> THEN <<>>
    ELSE LET parts == splitCamel(tokens[1])
         IN  [k \in 1..Len(parts) |-> toLowerCase(parts[k])]
                \o dotSubParts(Tail(tokens))

dotOfString(input) ==
    LET str == trim(input)
    IN  IF Len(str) = 0 THEN <<>>
        ELSE LET tokens == dotTokens(str)
             IN  IF Len(tokens) = 0 THEN <<>>
                 ELSE join(dotSubParts(tokens), <<".">>)

\* variant: only null is treated as absent
toDotCase_nullOnly(input) ==
    IF input.type = "null" THEN Return(<<>>)
    ELSE IF typeOf(input) # "string" THEN Throw("TypeError")
    ELSE Return(dotOfString(input.chars))

toDotCase(input) ==
    IF input.type \in {"null", "undefined"} THEN Return(<<>>)
    ELSE IF typeOf(input) # "string" THEN Throw("TypeError")
    ELSE Return(dotOfString(input.chars))

\* ------------------------------------------------------------------------
\* Arguments of the calls
\* ------------------------------------------------------------------------
\* one character of every class the converters distinguish
Alphabet == {"a", "B", "1", "$", " ", "_", ".", "-"}

RECURSIVE StringsOfLen(_)
StringsOfLen(n) ==
    IF n = 0 THEN {<<>>}
    ELSE {Append(s, c) : s \in StringsOfLen(n - 1), c \in Alphabet}

RECURSIVE StringsUpTo(_)
StringsUpTo(n) == IF n = 0 THEN {<<>>} ELSE StringsOfLen(n) \cup StringsUpTo(n - 1)

\* inputs of the self-test tables and of the documentation
ExAlreadyCamelCase == <<"a","l","r","e","a","d","y","C","a","m","e","l","C","a","s","e">>
ExSINGLE == <<"S","I","N","G","L","E">>
ExFOOBar == <<"F","O","O","B","a","r">>
ExFOOBAR == <<"F","O","O","B","A","R">>
ExUser123Id == <<"u","s","e","r","1","2","3","I","d">>
ExUserSnake == <<"u","s","e","r","_","1","2","3","-","i","d">>
ExHelloDots == <<"h","e","l","l","o",".",".",".","w","o","r","l","d">>
ExFooBarBaz == <<"f","o","o","-","-","b","a","r","_","_","b","a","z">>
ExHelloWorld == <<"H","e","l","l","o","W","o","r","l","d">>
ExHyphenEdges == <<"-","h","e","l","l","o","W","o","r","l","d","-">>
ExNasaApi == <<"N","A","S","A"," ","A","P","I">>
ExSpecial == <<"$","p","e","c","i","a","l","-","c","h","a","r","_","n","a","m","e">>
ExDots == <<"d","o","t","s",".","a","r","e",".","n","o","t">>
ExTabs == <<"\t","a","n","d","\t","t","a","b","s","\t">>
ExSpaces == <<" "," ","m","u","l","t","i","p","l","e"," "," "," ","s","p","a","c","e","s"," ">>

ExEdgeMix == <<" ", "-", "a", "B", " ">>

Examples == {ExEdgeMix, ExAlreadyCamelCase, ExSINGLE, ExFOOBar, ExFOOBAR,
             ExUser123Id, ExUserSnake, ExHelloDots, ExFooBarBaz,
             ExHelloWorld, ExHyphenEdges, ExNasaApi, ExSpecial,
             ExDots, ExTabs, ExSpaces}

NonStringTypes == {"number", "boolean", "object", "array"}

Inputs ==
    {Str(s) : s \in StringsUpTo(MaxLen) \cup Examples}
        \cup {NonValue(t) : t \in NonStringTypes \cup {"null", "undefined"}}

Converters == {"toKebabCase", "toCamelCase", "toDotCase"}

\* the delimiter set of a converter
DelimitersOf(f) ==
    IF f = "toKebabCase" THEN KebabDelimiters
    ELSE IF f = "toCamelCase" THEN CamelDelimiters
    ELSE DotDelimiters

\* runs of delimiters of the enumerated alphabet, of length 1..n
RECURSIVE RunsOfLen(_, _)
RunsOfLen(set, n) ==
    IF n = 0 THEN {<<>>}
    ELSE {Append(r, c) : r \in RunsOfLen(set, n - 1), c \in set \cap Alphabet}

RECURSIVE RunsUpTo(_, _)
RunsUpTo(set, n) ==
    IF n = 0 THEN {} ELSE RunsOfLen(set, n) \cup RunsUpTo(set, n - 1)

\* s with the character at position i replaced by the string run
substitute(s, i, run) == SubSeq(s, 1, i - 1) \o run \o SubSeq(s, i + 1, Len(s))

\* ------------------------------------------------------------------------
\* State: a caller that calls a converter, may rewrite the argument once
\* (feeding the result back, widening a delimiter, trimming) and calls again
\* ------------------------------------------------------------------------
VARIABLES
    input,      \* the argument of the next or of the last call
    fn,         \* the converter called last, "none" before the first call
    result,     \* the outcome of the last call, NoOutcome while none is known
    rewrite,    \* how the argument was rewritten: "none", "feedback", "expand", "trim"
    prior       \* the call before the rewrite: [fn, input, result]

vars == <<input, fn, result, rewrite, prior>>

NoPrior == [fn |-> "none", input |-> NonValue("undefined"), result |-> NoOutcome]

Init ==
    /\ input \in Inputs
    /\ fn = "none"
    /\ result = NoOutcome
    /\ rewrite = "none"
    /\ prior = NoPrior

\* a converter may be called when no outcome is pending; after a rewrite the
\* caller repeats the call of the same converter
MayCall(f) ==
    /\ result = NoOutcome
    /\ rewrite # "none" => prior.fn = f

CallKebab ==
    /\ MayCall("toKebabCase")
    /\ fn' = "toKebabCase"
    /\ result' = toKebabCase(input)
    /\ UNCHANGED <<input, rewrite, prior>>

CallCamel ==
    /\ MayCall("toCamelCase")
    /\ fn' = "toCamelCase"
    /\ result' = toCamelCase(input)
    /\ UNCHANGED <<input, rewrite, prior>>

CallDot ==
    /\ MayCall("toDotCase")
    /\ fn' = "toDotCase"
    /\ result' = toDotCase(input)
    /\ UNCHANGED <<input, rewrite, prior>>

\* the argument is rewritten once, after a call on a string has returned
MayRewrite ==
    /\ rewrite = "none"
    /\ result.kind = "return"
    /\ input.type = "string"

Rewritten(kind, chars) ==
    /\ prior' = [fn |-> fn, input |-> input, result |-> result]
    /\ input' = Str(chars)
    /\ rewrite' = kind
    /\ result' = NoOutcome
    /\ UNCHANGED fn

\* the result is passed to the converter again
Feedback ==
    /\ MayRewrite
    /\ Rewritten("feedback", result.value)

\* one delimiter of the converter is replaced by a run of its delimiters
Expand ==
    /\ MayRewrite
    /\ \E i \in 1..Len(input.chars) :
         /\ input.chars[i] \in DelimitersOf(fn)
         /\ \E run \in RunsUpTo(DelimitersOf(fn), MaxRun) :
                Rewritten("expand", substitute(input.chars, i, run))

\* the leading and trailing whitespace is removed from the argument
Trim ==
    /\ MayRewrite
    /\ Rewritten("trim", trim(input.chars))

Next ==
    \/ CallKebab
    \/ CallCamel
    \/ CallDot
    \/ Feedback
    \/ Expand
    \/ Trim

Spec == Init /\ [][Next]_vars

\* ------------------------------------------------------------------------
\* Vocabulary of the properties
\* ------------------------------------------------------------------------
\* converter f has been called on input and its outcome is in result
Called(f) == fn = f /\ result # NoOutcome

\* s without its leading and trailing whitespace, by positions
RefTrim(s) ==
    LET keep == {i \in 1..Len(s) : s[i] \notin WhitespaceSet}
    IN  IF keep = {} THEN <<>>
        ELSE SubSeq(s, CHOOSE i \in keep : \A j \in keep : i <= j,
                       CHOOSE i \in keep : \A j \in keep : i >= j)

\* the maximal delimiter-free substrings of t, in order
RefTokens(t, D) ==
    LET starts == {i \in 1..Len(t) : t[i] \notin D /\ (i = 1 \/ t[i - 1] \in D)}
        nth(k) == CHOOSE i \in starts : Cardinality({j \in starts : j < i}) = k - 1
        last(i) == CHOOSE j \in i..Len(t) :
                      /\ \A k \in i..j : t[k] \notin D
                      /\ j = Len(t) \/ t[j + 1] \in D
    IN  [k \in 1..Cardinality(starts) |-> SubSeq(t, nth(k), last(nth(k)))]

RECURSIVE Concat(_)
Concat(seqs) == IF seqs = <<>> THEN <<>> ELSE Head(seqs) \o Concat(Tail(seqs))

Contains(s, set) == \E i \in 1..Len(s) : s[i] \in set

\* a list of non-empty words joined by single separators sep
NoEmptyWord(s, sep) ==
    \A i \in 1..Len(s) :
        s[i] = sep => i > 1 /\ i < Len(s) /\ s[i + 1] # sep

\* camelCase of a token list, as the contract states it
RefCamelWords(toks) ==
    Concat([k \in 1..Len(toks) |->
        [i \in 1..Len(toks[k]) |->
            IF k > 1 /\ i = 1 THEN upperChar[toks[k][i]]
            ELSE lowerChar[toks[k][i]]]])

\* dot.case as the contract states it; digitSplits adds the transition from a
\* digit to an uppercase letter to the boundaries
RefDotCase(s, digitSplits) ==
    LET toks == RefTokens(RefTrim(s), DotDelimiters)
        boundary(tok, i) ==
            /\ i >= 2
            /\ tok[i] \in UpperSet
            /\ \/ tok[i - 1] \in LowerSet
               \/ digitSplits /\ tok[i - 1] \in DigitSet
               \/ tok[i - 1] \in UpperSet /\ i < Len(tok) /\ tok[i + 1] \in LowerSet
        word(tok) ==
            Concat([i \in 1..Len(tok) |->
                IF boundary(tok, i) THEN <<".", lowerChar[tok[i]]>>
                ELSE <<lowerChar[tok[i]]>>])
    IN  Concat([k \in 1..Len(toks) |->
            IF k = 1 THEN word(toks[k]) ELSE <<".">> \o word(toks[k])])

\* ------------------------------------------------------------------------
\* Properties
\* ------------------------------------------------------------------------

\* C1: toKebabCase is idempotent: called on its own result, it returns that
\* result again.
C1_KebabIdempotent ==
    (rewrite = "feedback" /\ Called("toKebabCase")) => result = prior.result

\* the first call changed its argument (camelCase boundary, delimiter run,
\* uppercase letter) and the second call has returned
C1_Witness ==
    /\ rewrite = "feedback" /\ Called("toKebabCase")
    /\ prior.input = Str(ExHyphenEdges)
    /\ input = Str(<<"h","e","l","l","o","-","w","o","r","l","d">>)
    /\ result = Return(<<"h","e","l","l","o","-","w","o","r","l","d">>)

\* C2: each converter returns the empty string, and throws nothing, for null
\* and for undefined.
C2_NullUndefinedEmpty ==
    \A f \in Converters :
        (Called(f) /\ input.type \in {"null", "undefined"}) => result = Return(<<>>)

C2_Witness ==
    Called("toDotCase") /\ input.type = "undefined" /\ result = Return(<<>>)

\* C3: a value that is neither a string nor null nor undefined ends every
\* converter with a TypeError and no value; a string never ends one with an
\* error.
C3_TypeErrorOnNonString ==
    \A f \in Converters :
        Called(f) =>
            /\ input.type \in NonStringTypes => result = Throw("TypeError")
            /\ input.type = "string" => result.kind = "return"

C3_Witness ==
    Called("toCamelCase") /\ input.type = "array" /\ result = Throw("TypeError")

\* C4: toCamelCase on a string whose trimmed form holds a delimiter returns its
\* non-empty tokens, the first lowercased, the later ones capitalised, joined
\* with nothing between them; the result holds no whitespace, '-' or '_'.
C4_CamelDelimiterPath ==
    (/\ Called("toCamelCase")
     /\ input.type = "string"
     /\ Contains(RefTrim(input.chars), CamelDelimiters))
    => /\ result =
            Return(RefCamelWords(RefTokens(RefTrim(input.chars), CamelDelimiters)))
       /\ ~Contains(result.value, CamelDelimiters)

C4_Witness ==
    /\ Called("toCamelCase")
    /\ input = Str(ExFooBarBaz)
    /\ result = Return(<<"f","o","o","B","a","r","B","a","z">>)

\* C5: toCamelCase on a string whose trimmed form t is non-empty and holds no
\* delimiter returns t when t starts with a lowercase letter, is made of
\* letters and digits and holds an uppercase letter; else t lowercased when t
\* holds no lowercase letter; else t with its first character lowercased.
C5_CamelSingleToken ==
    LET t == RefTrim(input.chars)
        letters == LowerSet \cup UpperSet
    IN  (/\ Called("toCamelCase")
         /\ input.type = "string"
         /\ t # <<>>
         /\ ~Contains(t, CamelDelimiters))
        => /\ result.kind = "return"
           /\ result.value =
                IF /\ t[1] \in LowerSet
                   /\ \A i \in 1..Len(t) : t[i] \in letters \cup DigitSet
                   /\ Contains(t, UpperSet)
                THEN t
                ELSE IF ~Contains(t, LowerSet)
                     THEN [i \in 1..Len(t) |-> lowerChar[t[i]]]
                     ELSE [i \in 1..Len(t) |->
                            IF i = 1 THEN lowerChar[t[i]] ELSE t[i]]
           /\ input = Str(ExAlreadyCamelCase) => result.value = ExAlreadyCamelCase
           /\ input = Str(ExSINGLE) => result.value = <<"s","i","n","g","l","e">>
           /\ input = Str(ExFOOBar) => result.value = <<"f","O","O","B","a","r">>
           /\ input = Str(ExDots) => result.value = ExDots

C5_Witness ==
    /\ Called("toCamelCase")
    /\ input = Str(ExFOOBar)
    /\ result = Return(<<"f","O","O","B","a","r">>)

C7_DelimiterCollapsing ==
    /\ (rewrite = "expand" /\ (Called("toKebabCase") \/ Called("toDotCase")))
            => result = prior.result
    /\ Called("toKebabCase") => NoEmptyWord(result.value, "-")
    /\ Called("toDotCase") => NoEmptyWord(result.value, ".")

\* an inner delimiter was widened to a run of two other delimiters
C7_Witness ==
    /\ rewrite = "expand" /\ Called("toDotCase")
    /\ prior.input = Str(<<"a", "-", "B">>)
    /\ input = Str(<<"a", ".", "_", "B">>)
    /\ result = Return(<<"a", ".", "b">>)

\* C8: the result of toKebabCase holds no uppercase letter, whitespace, '_' or
\* '.', neither begins nor ends with '-' and holds no two adjacent hyphens.
C8_KebabShape ==
    (Called("toKebabCase") /\ input.type = "string")
    => LET v == result.value
       IN  /\ result.kind = "return"
           /\ ~Contains(v, UpperSet \cup WhitespaceSet \cup {"_", "."})
           /\ v # <<>> => v[1] # "-" /\ v[Len(v)] # "-"
           /\ \A i \in 1..(Len(v) - 1) : ~(v[i] = "-" /\ v[i + 1] = "-")

C8_Witness ==
    /\ Called("toKebabCase")
    /\ input = Str(<<"_", "B", " ">>)
    /\ result = Return(<<"b">>)

\* C9: toDotCase starts a new part at every transition from a lowercase letter
\* or a digit to an uppercase letter, so "user123Id" gives "user123.id".
C9_DigitToUpperSplits ==
    (Called("toDotCase") /\ input.type = "string")
    => /\ result = Return(RefDotCase(input.chars, TRUE))
       /\ input = Str(ExUser123Id) => result.value = <<"u","s","e","r","1","2","3",".","i","d">>

\* C10: toKebabCase returns the same result for a string and for that string
\* without its leading and trailing whitespace.
C10_KebabTrimUnobservable ==
    (rewrite = "trim" /\ Called("toKebabCase")) => result = prior.result

\* edge whitespace next to another delimiter and to a camelCase boundary
C10_Witness ==
    /\ rewrite = "trim" /\ Called("toKebabCase")
    /\ prior.input = Str(ExEdgeMix)
    /\ input = Str(<<"-", "a", "B">>)
    /\ result = Return(<<"a", "-", "b">>)

====
